---- MODULE Spec2Model ----
(***************************************************************************)
(* Model of the eterno voxel world: the genesis pipeline (load_chunk,      *)
(* unload_chunk, update_voxel, update_chunk), the chunk cache (generate,   *)
(* save, load, local_path), the coordinate transforms of voxel.rs and the  *)
(* FacesOcclusion mask of vox_render.                                      *)
(*                                                                         *)
(* Data representation.  A ChunkKind is a dense AXIS_SIZE^3 array of       *)
(* Kind whose default is 0.  It is stored here by its support: the         *)
(* function from the voxels holding a non-zero kind to that kind, every    *)
(* other voxel reading 0.  Two arrays are equal exactly when their         *)
(* supports are equal functions.  A file is a byte array stored the same   *)
(* way (its length and the offsets holding a non-zero byte).  Strings are  *)
(* sequences of one-character strings.                                     *)
(***************************************************************************)
EXTENDS Integers, Sequences, FiniteSets, TLC

VARIABLES
    world,      \* VoxWorld: resident chunk coordinate -> chunk
    files,      \* file system: path -> file content
    status,     \* "ok", or "panic" once a fatal assertion has fired
    call,       \* the last command that ran, its arguments' case and result
    steps,      \* number of commands issued so far
    written,    \* history: path -> the record last handed to save
    pure,       \* inputs and outputs of the pure-function specifications
    occlusion,  \* a FacesOcclusion value: the u8 it wraps
    procs       \* concurrent cache calls: call -> its position and locals

vars == <<world, files, status, call, steps, written, pure, occlusion, procs>>

(***************************************************************************)
(* Program constants                                                       *)
(***************************************************************************)
SIDE_COUNT == 6
AXIS_SIZE == 16
KIND_MAX == 65535
F32_MANTISSA == 16777216
F32_UNIT == 4
CACHE_PATH == <<"c", "a", "c", "h", "e", "/", "c", "h", "u", "n", "k", "s">>
CACHE_EXT == <<"b", "i", "n">>
RECORD_HEADER == 12
RECORD_LEN == RECORD_HEADER + 2 * AXIS_SIZE * AXIS_SIZE * AXIS_SIZE

(***************************************************************************)
(* Bounds of the model                                                     *)
(***************************************************************************)
MaxEdits == 2
MaxSteps == 3
MaxKind == 2
MaxDigits == 2
MaxChunk == 1
MaxPos == 1

(***************************************************************************)
(* Vectors and sides (voxel.rs)                                            *)
(***************************************************************************)
VAdd(a, b) == <<a[1] + b[1], a[2] + b[2], a[3] + b[3]>>

SIDES == <<"Right", "Left", "Up", "Down", "Front", "Back">>

dir(s) ==
    CASE s = "Right" -> <<1, 0, 0>>
      [] s = "Left"  -> <<-1, 0, 0>>
      [] s = "Up"    -> <<0, 1, 0>>
      [] s = "Down"  -> <<0, -1, 0>>
      [] s = "Front" -> <<0, 0, 1>>
      [] s = "Back"  -> <<0, 0, -1>>

Range(seq) == {seq[i] : i \in 1..Len(seq)}

Min(a, b) == IF a < b THEN a ELSE b

(***************************************************************************)
(* chunk.rs: dense storage, bounds and boundary directions                 *)
(***************************************************************************)
Voxels == (0..(AXIS_SIZE - 1)) \X (0..(AXIS_SIZE - 1)) \X (0..(AXIS_SIZE - 1))

ChunkKindDefault == [v \in {} |-> 0]

ChunkGet(kind, v) == IF v \in DOMAIN kind THEN kind[v] ELSE 0

ChunkSet(kind, v, k) ==
    IF k = 0
    THEN [w \in (DOMAIN kind) \ {v} |-> kind[w]]
    ELSE [w \in (DOMAIN kind) \cup {v} |-> IF w = v THEN k ELSE kind[w]]

is_at_bounds(v) ==
    \E i \in 1..3 : v[i] = 0 \/ v[i] = AXIS_SIZE - 1

BoundaryComponent(x) ==
    IF x = 0 THEN -1 ELSE IF x = AXIS_SIZE - 1 THEN 1 ELSE 0

get_boundary_dir(v) ==
    <<BoundaryComponent(v[1]), BoundaryComponent(v[2]), BoundaryComponent(v[3])>>

(***************************************************************************)
(* f32 values (Vec3 components) are kept in fixed point, in units of       *)
(* 1/F32_UNIT.  An f32 holds F32_MANTISSA = 2^24 steps of significand:     *)
(* F32Round rounds to the nearest representable value, ties to even.       *)
(***************************************************************************)
Abs(x) == IF x < 0 THEN -x ELSE x

RECURSIVE F32Grid(_, _)
F32Grid(m, g) == IF m \div g < F32_MANTISSA THEN g ELSE F32Grid(m, 2 * g)

F32Round(x) ==
    LET m  == Abs(x)
        g  == F32Grid(m, 1)
        q  == m \div g
        r  == m % g
        up == 2 * r > g \/ (2 * r = g /\ q % 2 = 1)
        n  == (IF up THEN q + 1 ELSE q) * g
    IN  IF x < 0 THEN -n ELSE n

as_f32(i) == F32Round(i * F32_UNIT)

as_vec3(v) == <<as_f32(v[1]), as_f32(v[2]), as_f32(v[3])>>

Vec3Add(a, b) == <<F32Round(a[1] + b[1]), F32Round(a[2] + b[2]), F32Round(a[3] + b[3])>>

chunk_to_world(local) ==
    LET f == as_vec3(local)
    IN  <<F32Round(f[1] * AXIS_SIZE), F32Round(f[2] * AXIS_SIZE),
          F32Round(f[3] * AXIS_SIZE)>>

(***************************************************************************)
(* math.rs                                                                 *)
(***************************************************************************)
UnitComponent(x) == IF x >= 1 THEN 1 ELSE IF x <= -1 THEN -1 ELSE 0

math_floor(v) == <<v[1] \div F32_UNIT, v[2] \div F32_UNIT, v[3] \div F32_UNIT>>

\* The % of the machine's signed integers: the remainder takes the sign of
\* the dividend.
TruncRem(a, n) == IF a >= 0 THEN a % n ELSE -((-a) % n)

\* i32::rem_euclid: the truncating remainder, moved up by n when negative.
rem_euclid(a, n) == LET r == TruncRem(a, n) IN IF r < 0 THEN r + n ELSE r

euclid_rem(v, n) == <<rem_euclid(v[1], n), rem_euclid(v[2], n), rem_euclid(v[3], n)>>

to_unit_dir(d) ==
    (IF d[1] # 0 THEN {<<UnitComponent(d[1]), 0, 0>>} ELSE {})
    \cup (IF d[2] # 0 THEN {<<0, UnitComponent(d[2]), 0>>} ELSE {})
    \cup (IF d[3] # 0 THEN {<<0, 0, UnitComponent(d[3])>>} ELSE {})

(***************************************************************************)
(* world.rs: VoxWorld, a map from chunk coordinate to chunk.  A chunk is   *)
(* its kind layer plus the neighbourhood-dependent derived state, kept as  *)
(* the set of sides on which a resident neighbour was seen by the last     *)
(* update_neighborhood.                                                    *)
(***************************************************************************)
WorldEmpty == [c \in {} |-> 0]

NewChunk(kind) == [kind |-> kind, neighborhood |-> {}]

world_get(w, local) == local \in DOMAIN w

world_add(w, local, kind) ==
    [c \in (DOMAIN w) \cup {local} |-> IF c = local THEN NewChunk(kind) ELSE w[c]]

world_remove(w, local) == [c \in (DOMAIN w) \ {local} |-> w[c]]

SeenSides(w, c) == {s \in Range(SIDES) : VAdd(c, dir(s)) \in DOMAIN w}

update_neighborhood(w, local) ==
    LET touched == {local} \cup {VAdd(local, dir(s)) : s \in Range(SIDES)}
    IN  [c \in DOMAIN w |->
            IF c \in touched
            THEN [w[c] EXCEPT !.neighborhood = SeenSides(w, c)]
            ELSE w[c]]

Resident(w) == DOMAIN w

(***************************************************************************)
(* voxel.rs: coordinate transforms                                         *)
(***************************************************************************)
\* Mutant of to_local: the remainder of the floored components is the
\* truncating one.
to_local_truncating(pos) ==
    LET vec == math_floor(pos)
    IN  <<TruncRem(vec[1], AXIS_SIZE), TruncRem(vec[2], AXIS_SIZE),
          TruncRem(vec[3], AXIS_SIZE)>>

to_local(pos) == euclid_rem(math_floor(pos), AXIS_SIZE)

to_world(local, chunk_local) == Vec3Add(chunk_to_world(chunk_local), as_vec3(local))

(***************************************************************************)
(* Strings: decimal formatting and path handling                          *)
(***************************************************************************)
Digits == <<"0", "1", "2", "3", "4", "5", "6", "7", "8", "9">>

RECURSIVE NatToString(_)
NatToString(n) ==
    IF n < 10 THEN <<Digits[n + 1]>>
    ELSE NatToString(n \div 10) \o <<Digits[(n % 10) + 1]>>

IntToString(n) == IF n < 0 THEN <<"-">> \o NatToString(-n) ELSE NatToString(n)

IVec3ToString(v) ==
    <<"[">> \o IntToString(v[1]) \o <<",", " ">> \o IntToString(v[2])
            \o <<",", " ">> \o IntToString(v[3]) \o <<"]">>

RECURSIVE FilterMapChars(_)
FilterMapChars(s) ==
    IF s = <<>> THEN <<>>
    ELSE LET c == Head(s)
             rest == FilterMapChars(Tail(s))
         IN  IF c = "," THEN <<"_">> \o rest
             ELSE IF c \in {" ", "[", "]"} THEN rest
             ELSE <<c>> \o rest

\* Mutant of format_local: the filter also drops the minus sign.
format_local_unsigned(local) ==
    SelectSeq(FilterMapChars(IVec3ToString(local)), LAMBDA c : c # "-")

format_local(local) == FilterMapChars(IVec3ToString(local))

LastIndexOf(s, ch) ==
    LET hits == {i \in 1..Len(s) : s[i] = ch}
    IN  IF hits = {} THEN 0 ELSE CHOOSE i \in hits : \A j \in hits : j <= i

with_file_name(p, name) == SubSeq(p, 1, LastIndexOf(p, "/")) \o name

with_extension(p, ext) ==
    LET slash == LastIndexOf(p, "/")
        fname == SubSeq(p, slash + 1, Len(p))
        dot   == LastIndexOf(fname, ".")
        stem  == IF dot > 1 THEN SubSeq(fname, 1, dot - 1) ELSE fname
    IN  SubSeq(p, 1, slash) \o stem \o <<".">> \o ext

local_path(local) ==
    with_extension(with_file_name(CACHE_PATH, format_local(local)), CACHE_EXT)

(***************************************************************************)
(* Serialisation of a ChunkCache record (bincode: fixed-width integers,    *)
(* little endian, two's complement).  The record is the three i32 of the   *)
(* coordinate followed by one u16 per voxel in array order.                *)
(***************************************************************************)
to_index(v) == (v[1] * AXIS_SIZE + v[2]) * AXIS_SIZE + v[3]

from_index(i) ==
    <<i \div (AXIS_SIZE * AXIS_SIZE), (i \div AXIS_SIZE) % AXIS_SIZE, i % AXIS_SIZE>>

I32Bytes(n) ==
    <<n % 256, (n \div 256) % 256, (n \div 65536) % 256, (n \div 16777216) % 256>>

I32FromBytes(b) ==
    LET top == IF b[4] >= 128 THEN b[4] - 256 ELSE b[4]
    IN  ((top * 256 + b[3]) * 256 + b[2]) * 256 + b[1]

U16Bytes(k) == <<k % 256, (k \div 256) % 256>>

U16FromBytes(b) == b[1] + 256 * b[2]

ByteAt(file, o) == IF o \in DOMAIN file.data THEN file.data[o] ELSE 0

\* The byte written at offset o of the record.
RecordByte(local, kind, o) ==
    IF o < RECORD_HEADER
    THEN I32Bytes(local[(o \div 4) + 1])[(o % 4) + 1]
    ELSE U16Bytes(ChunkGet(kind, from_index((o - RECORD_HEADER) \div 2)))[((o - RECORD_HEADER) % 2) + 1]

bincode_serialize(local, kind) ==
    LET offsets == (0..(RECORD_HEADER - 1)) \cup
                   {RECORD_HEADER + 2 * to_index(v) + j : v \in DOMAIN kind, j \in 0..1}
    IN  [len  |-> RECORD_LEN,
         data |-> [o \in {q \in offsets : RecordByte(local, kind, q) # 0} |->
                        RecordByte(local, kind, o)]]

bincode_deserialize(file) ==
    LET stored == {(o - RECORD_HEADER) \div 2 :
                        o \in {q \in DOMAIN file.data : q >= RECORD_HEADER}}
        I32At(o) == I32FromBytes(<<ByteAt(file, o), ByteAt(file, o + 1),
                                   ByteAt(file, o + 2), ByteAt(file, o + 3)>>)
        U16At(o) == U16FromBytes(<<ByteAt(file, o), ByteAt(file, o + 1)>>)
    IN  [ok    |-> file.len >= RECORD_LEN,
         local |-> <<I32At(0), I32At(4), I32At(8)>>,
         kind  |-> [v \in {from_index(i) : i \in stored} |->
                        U16At(RECORD_HEADER + 2 * to_index(v))]]

(***************************************************************************)
(* File system                                                             *)
(***************************************************************************)
NoFiles == [p \in {} |-> 0]

path_exists(fs, path) == path \in DOMAIN fs

remove_file(fs, path) == [p \in (DOMAIN fs) \ {path} |-> fs[p]]

\* OpenOptions write + truncate + create: the file exists and is empty.
open_truncate(fs, path) ==
    [p \in (DOMAIN fs) \cup {path} |->
        IF p = path THEN [len |-> 0, data |-> [o \in {} |-> 0]] ELSE fs[p]]

(***************************************************************************)
(* Terrain noise.  FastNoise is an external library: its value h in        *)
(* [-1, 1] is stood in for by a fixed deterministic function of the world  *)
(* column, in units of 1/NOISE_UNIT.                                       *)
(***************************************************************************)
NOISE_UNIT == 64

get_noise(x, z) ==
    LET a == (x \div F32_UNIT) % 73
        b == (z \div F32_UNIT) % 73
    IN  ((a * 7 + b * 13 + a * b) % 73) - NOISE_UNIT

(***************************************************************************)
(* mod cache (genesis.rs)                                                  *)
(***************************************************************************)
\* Mutant of save: the file is opened without truncation and an existing
\* record stays in front of the new one.
save_keep_old(fs, path, local, kind) ==
    [p \in (DOMAIN fs) \cup {path} |->
        IF p = path /\ ~path_exists(fs, path)
        THEN bincode_serialize(local, kind)
        ELSE fs[p]]

save(fs, path, local, kind) ==
    [p \in (DOMAIN fs) \cup {path} |->
        IF p = path THEN bincode_serialize(local, kind) ELSE fs[p]]

\* The ChunkCache value load() deserialises, or the panic it raises.
load_cache(fs, path) ==
    IF ~path_exists(fs, path)
    THEN [panic |-> TRUE, local |-> <<0, 0, 0>>, kind |-> ChunkKindDefault]
    ELSE LET cache == bincode_deserialize(fs[path])
         IN  IF cache.ok
             THEN [panic |-> FALSE, local |-> cache.local, kind |-> cache.kind]
             ELSE [panic |-> TRUE, local |-> <<0, 0, 0>>, kind |-> ChunkKindDefault]

\* Mutant of load: the layer of the record is not handed back.
load_without_layer(fs, path) ==
    LET cache == load_cache(fs, path)
    IN  [panic |-> cache.panic, kind |-> ChunkKindDefault]

load(fs, path) ==
    LET cache == load_cache(fs, path)
    IN  [panic |-> cache.panic, kind |-> cache.kind]

\* Heights are kept in units of 1/NOISE_UNIT; f32::EPSILON is below one unit.
ColumnEnd(wy, h) ==
    LET world_height == ((h + NOISE_UNIT) * (2 * AXIS_SIZE)) \div 2
        height_local == world_height - wy * (NOISE_UNIT \div F32_UNIT)
    IN  IF height_local <= 0 THEN 0
        ELSE Min(height_local \div NOISE_UNIT, AXIS_SIZE)

GenerateKind(local) ==
    LET w == chunk_to_world(local)
        filled == UNION {{<<x, y, z>> :
                            y \in 0..(ColumnEnd(w[2], get_noise(F32Round(w[1] + as_f32(x)),
                                                  F32Round(w[3] + as_f32(z)))) - 1)} :
                         x \in 0..(AXIS_SIZE - 1), z \in 0..(AXIS_SIZE - 1)}
    IN  [v \in filled |-> 1]

\* Mutant of generate: the existence assertion is missing.
generate_no_assert(fs, local) ==
    LET path == local_path(local)
    IN  CHOOSE r \in
            {[panic |-> FALSE, files |-> save(fs, path, local, kind), kind |-> kind] :
                kind \in {GenerateKind(local)}} : TRUE

\* The terrain is computed once and bound to kind by the set construction.
generate(fs, local) ==
    LET path == local_path(local)
    IN  CHOOSE r \in
            {IF path_exists(fs, path)
             THEN [panic |-> TRUE, files |-> fs, kind |-> kind]
             ELSE [panic |-> FALSE, files |-> save(fs, path, local, kind), kind |-> kind] :
                kind \in {GenerateKind(local)}} : TRUE

(***************************************************************************)
(* FacesOcclusion (vox_render/lib.rs): a u8 whose low six bits are the     *)
(* sides, bit n for the side with discriminant n.                          *)
(***************************************************************************)
U8_BITS == 8
U8_MAX == 255
FULL_OCCLUDED_MASK == 63

\* FacesOcclusion::default(): the derived Default of a u8 wrapper.
FacesOcclusionDefault == 0

Bit(a, i) == (a \div (2 ^ i)) % 2

\* a & b, a | b and !a on u8, bit by bit.
BitAnd(a, b) ==
    LET f[i \in 0..U8_BITS] ==
            IF i = U8_BITS THEN 0 ELSE (2 ^ i) * (Bit(a, i) * Bit(b, i)) + f[i + 1]
    IN  f[0]

BitOr(a, b) ==
    LET f[i \in 0..U8_BITS] ==
            IF i = U8_BITS THEN 0
            ELSE (2 ^ i) * (IF Bit(a, i) = 1 \/ Bit(b, i) = 1 THEN 1 ELSE 0) + f[i + 1]
    IN  f[0]

BitNot(a) ==
    LET f[i \in 0..U8_BITS] ==
            IF i = U8_BITS THEN 0 ELSE (2 ^ i) * (1 - Bit(a, i)) + f[i + 1]
    IN  f[0]

\* side as usize: the discriminant, which is the position in SIDES.
SideIndex(side) == (CHOOSE i \in 1..SIDE_COUNT : SIDES[i] = side) - 1

\* 1 << side as usize, in u8.
SideMask(side) == (2 ^ SideIndex(side)) % (U8_MAX + 1)

\* Mutant of set_all: the mask is combined with the old value instead of
\* replacing it.
set_all_combining(m, occluded) ==
    IF occluded THEN BitOr(m, FULL_OCCLUDED_MASK) ELSE BitAnd(m, FULL_OCCLUDED_MASK)

set_all(m, occluded) == IF occluded THEN FULL_OCCLUDED_MASK ELSE 0

\* Mutant of is_fully_occluded: some bit of the mask instead of all of them.
is_fully_occluded_any(m) == BitAnd(m, FULL_OCCLUDED_MASK) # 0

is_fully_occluded(m) == BitAnd(m, FULL_OCCLUDED_MASK) = FULL_OCCLUDED_MASK

is_occluded(m, side) == BitAnd(m, SideMask(side)) = SideMask(side)

\* Mutant of set: the clearing branch keeps the side's bit instead of its
\* complement.
set_without_complement(m, side, occluded) ==
    IF occluded THEN BitOr(m, SideMask(side)) ELSE BitAnd(m, SideMask(side))

set(m, side, occluded) ==
    IF occluded THEN BitOr(m, SideMask(side)) ELSE BitAnd(m, BitNot(SideMask(side)))

\* From<[bool; 6]>::from: result starts as Self::default() and the loop does
\* result.set(side, v[side as usize]) for each side of SIDES in order;
\* result[i] is the value after the first i sides.
from(v) ==
    LET result[i \in 0..SIDE_COUNT] ==
            IF i = 0 THEN FacesOcclusionDefault
            ELSE set(result[i - 1], SIDES[i], v[SideIndex(SIDES[i]) + 1])
    IN  result[SIDE_COUNT]

(***************************************************************************)
(* Genesis pipeline (genesis.rs).  Every function is an operator from the  *)
(* state it reads to the state it leaves and the value it returns.         *)
(***************************************************************************)
\* Mutant of the edit loop: the neighbour is taken along the whole boundary
\* direction instead of along each of its unit directions.
RECURSIVE update_voxel_loop_diagonal(_, _, _, _)
update_voxel_loop_diagonal(kind, dirty_chunks, local, voxels) ==
    IF voxels = <<>>
    THEN [kind |-> kind, dirty |-> dirty_chunks]
    ELSE LET voxel == Head(voxels)[1]
             k     == Head(voxels)[2]
             marked ==
                IF is_at_bounds(voxel)
                THEN {VAdd(get_boundary_dir(voxel), local)}
                ELSE {}
         IN  update_voxel_loop_diagonal(ChunkSet(kind, voxel, k),
                                        dirty_chunks \cup marked, local, Tail(voxels))

\* Mutant of the edit loop: the edits are applied last to first.
RECURSIVE update_voxel_loop_reversed(_, _, _, _)
update_voxel_loop_reversed(kind, dirty_chunks, local, voxels) ==
    IF voxels = <<>>
    THEN [kind |-> kind, dirty |-> dirty_chunks]
    ELSE LET voxel == Head(voxels)[1]
             k     == Head(voxels)[2]
             marked ==
                IF is_at_bounds(voxel)
                THEN {VAdd(unit_dir, local) :
                        unit_dir \in to_unit_dir(get_boundary_dir(voxel))}
                ELSE {}
             r == update_voxel_loop_reversed(kind, dirty_chunks \cup marked,
                                             local, Tail(voxels))
         IN  [kind |-> ChunkSet(r.kind, voxel, k), dirty |-> r.dirty]

RECURSIVE update_voxel_loop(_, _, _, _)
update_voxel_loop(kind, dirty_chunks, local, voxels) ==
    IF voxels = <<>>
    THEN [kind |-> kind, dirty |-> dirty_chunks]
    ELSE LET voxel == Head(voxels)[1]
             k     == Head(voxels)[2]
             marked ==
                IF is_at_bounds(voxel)
                THEN {VAdd(unit_dir, local) :
                        unit_dir \in to_unit_dir(get_boundary_dir(voxel))}
                ELSE {}
         IN  update_voxel_loop(ChunkSet(kind, voxel, k), dirty_chunks \cup marked,
                               local, Tail(voxels))

\* Mutant of update_voxel: the chunk coordinate is marked dirty outside the
\* residency test.
update_voxel_always_dirty(w, local, voxels) ==
    IF world_get(w, local)
    THEN LET r == update_voxel_loop(w[local].kind, {}, local, voxels)
         IN  [world |-> [w EXCEPT ![local].kind = r.kind],
              dirty |-> r.dirty \cup {local}]
    ELSE [world |-> w, dirty |-> {local}]

\* Mutant of update_voxel: an absent chunk is created empty and edited.
update_voxel_or_insert(w, local, voxels) ==
    LET present == IF world_get(w, local) THEN w
                   ELSE world_add(w, local, ChunkKindDefault)
        r == update_voxel_loop(present[local].kind, {}, local, voxels)
    IN  [world |-> [present EXCEPT ![local].kind = r.kind],
         dirty |-> r.dirty \cup {local}]

update_voxel(w, local, voxels) ==
    IF world_get(w, local)
    THEN LET r == update_voxel_loop(w[local].kind, {}, local, voxels)
         IN  [world |-> [w EXCEPT ![local].kind = r.kind],
              dirty |-> r.dirty \cup {local}]
    ELSE [world |-> w, dirty |-> {}]

\* Mutant of unload_chunk: the neighbours are reported whether or not a
\* chunk was removed.
unload_chunk_always_dirty(w, local) ==
    [world |-> world_remove(w, local),
     dirty |-> {VAdd(dir(SIDES[i]), local) : i \in 1..SIDE_COUNT}]

\* Mutant of unload_chunk: the unloaded coordinate is reported as well.
unload_chunk_with_self(w, local) ==
    IF ~world_get(w, local)
    THEN [world |-> w, dirty |-> {}]
    ELSE [world |-> world_remove(w, local),
          dirty |-> {VAdd(dir(SIDES[i]), local) : i \in 1..SIDE_COUNT} \cup {local}]

unload_chunk(w, local) ==
    IF ~world_get(w, local)
    THEN [world |-> w, dirty |-> {}]
    ELSE [world |-> world_remove(w, local),
          dirty |-> {VAdd(dir(SIDES[i]), local) : i \in 1..SIDE_COUNT}]

\* cache::load(&path) as load_chunk uses it: the layer, the file system as is.
LoadedFrom(fs, path) ==
    CHOOSE r \in {[panic |-> l.panic, kind |-> l.kind, files |-> fs] :
                    l \in {load(fs, path)}} : TRUE

\* Mutant of load_chunk: a chunk that is already resident is kept.
load_chunk_keep_resident(w, fs, local) ==
    LET path == local_path(local)
    IN  CHOOSE r \in
            {IF chunk.panic
             THEN [panic |-> TRUE, world |-> w, files |-> fs, dirty |-> {}]
             ELSE [panic |-> FALSE,
                   world |-> IF world_get(w, local) THEN w
                             ELSE world_add(w, local, chunk.kind),
                   files |-> chunk.files,
                   dirty |-> {VAdd(dir(SIDES[i]), local) : i \in 1..SIDE_COUNT}
                                \cup {local}] :
                chunk \in {IF path_exists(fs, path)
                            THEN LoadedFrom(fs, path)
                            ELSE generate(fs, local)}} : TRUE

\* Mutant of load_chunk: the layer is generated without looking for a cache
\* file.
load_chunk_always_generate(w, fs, local) ==
    CHOOSE r \in
        {IF chunk.panic
         THEN [panic |-> TRUE, world |-> w, files |-> fs, dirty |-> {}]
         ELSE [panic |-> FALSE,
               world |-> world_add(w, local, chunk.kind),
               files |-> chunk.files,
               dirty |-> {VAdd(dir(SIDES[i]), local) : i \in 1..SIDE_COUNT}
                            \cup {local}] :
            chunk \in {generate(fs, local)}} : TRUE

\* Mutant of load_chunk: the layer of a chunk that is replaced is saved to
\* the cache file first.
load_chunk_persisting(w, fs, local) ==
    LET path == local_path(local)
    IN  CHOOSE r \in
            {IF chunk.panic
             THEN [panic |-> TRUE, world |-> w, files |-> fs, dirty |-> {}]
             ELSE [panic |-> FALSE,
                   world |-> world_add(w, local, chunk.kind),
                   files |-> IF world_get(w, local)
                             THEN save(chunk.files, path, local, w[local].kind)
                             ELSE chunk.files,
                   dirty |-> {VAdd(dir(SIDES[i]), local) : i \in 1..SIDE_COUNT}
                                \cup {local}] :
                chunk \in {IF path_exists(fs, path)
                            THEN LoadedFrom(fs, path)
                            ELSE generate(fs, local)}} : TRUE

\* Mutant of load_chunk: the loaded coordinate is not chained to the
\* neighbours.
load_chunk_without_self(w, fs, local) ==
    LET path == local_path(local)
    IN  CHOOSE r \in
            {IF chunk.panic
             THEN [panic |-> TRUE, world |-> w, files |-> fs, dirty |-> {}]
             ELSE [panic |-> FALSE,
                   world |-> world_add(w, local, chunk.kind),
                   files |-> chunk.files,
                   dirty |-> {VAdd(dir(SIDES[i]), local) : i \in 1..SIDE_COUNT}] :
                chunk \in {IF path_exists(fs, path)
                            THEN LoadedFrom(fs, path)
                            ELSE generate(fs, local)}} : TRUE

load_chunk(w, fs, local) ==
    LET path == local_path(local)
    IN  CHOOSE r \in
            {IF chunk.panic
             THEN [panic |-> TRUE, world |-> w, files |-> fs, dirty |-> {}]
             ELSE [panic |-> FALSE,
                   world |-> world_add(w, local, chunk.kind),
                   files |-> chunk.files,
                   dirty |-> {VAdd(dir(SIDES[i]), local) : i \in 1..SIDE_COUNT}
                                \cup {local}] :
                chunk \in {IF path_exists(fs, path)
                            THEN LoadedFrom(fs, path)
                            ELSE generate(fs, local)}} : TRUE

\* Mutant of update_chunk: the residency test is missing.
update_chunk_always_true(w, local) ==
    [world |-> update_neighborhood(w, local), ret |-> TRUE]

update_chunk(w, local) ==
    IF world_get(w, local)
    THEN [world |-> update_neighborhood(w, local), ret |-> TRUE]
    ELSE [world |-> w, ret |-> FALSE]

(***************************************************************************)
(* The driver: one command at a time against one World (Spec)              *)
(***************************************************************************)
ChunkCoords == {<<0, 1, 0>>, <<-1, 1, 0>>}

\* A face voxel (0, y, z), a corner voxel and a strictly interior voxel.
EditVoxels == {<<0, 3, 4>>, <<AXIS_SIZE - 1, 0, AXIS_SIZE - 1>>, <<4, 1, 10>>}

\* Every voxel above set to kind MaxKind, and the corner voxel cleared again.
Edits == (EditVoxels \X {MaxKind}) \cup {<<<<AXIS_SIZE - 1, 0, AXIS_SIZE - 1>>, 0>>}

EditSeqs == UNION {[1..n -> Edits] : n \in 0..MaxEdits}

NoCall ==
    [op |-> "none", local |-> <<0, 0, 0>>, voxels |-> <<>>, dirty |-> {},
     ret |-> FALSE, resident |-> FALSE, cached |-> FALSE,
     path |-> <<>>, kind |-> ChunkKindDefault,
     before |-> ChunkKindDefault,
     side |-> "none", occluded |-> FALSE, mask |-> 0, list |-> <<>>]

NoProcs == <<>>

NoPure ==
    [fn |-> "none", a |-> <<0, 0, 0>>, b |-> <<0, 0, 0>>, v |-> <<0, 0, 0>>,
     out_a |-> <<>>, out_b |-> <<>>, pos |-> <<0, 0, 0>>, back |-> <<0, 0, 0>>]

\* The cache directory outlives the process: records written by an earlier
\* run may already be there.
PreCache(S) ==
    [p \in {local_path(c) : c \in S} |->
        LET c == CHOOSE d \in S : local_path(d) = p
        IN  bincode_serialize(c, GenerateKind(c))]

\* The cache directory at start: empty, or holding one coordinate's record.
CachedAtStart == {{}, {<<0, 1, 0>>}}

Init ==
    /\ world = WorldEmpty
    /\ files \in {PreCache(S) : S \in CachedAtStart}
    /\ status = "ok"
    /\ call = NoCall
    /\ steps = 0
    /\ written = NoFiles
    /\ occlusion = FacesOcclusionDefault
    /\ procs = NoProcs
    /\ pure = NoPure

LoadChunk(c) ==
    /\ status = "ok"
    /\ steps < MaxSteps
    /\ \E r \in {load_chunk(world, files, c)} :
           /\ world' = r.world
           /\ files' = r.files
           /\ status' = IF r.panic THEN "panic" ELSE "ok"
           /\ call' = [NoCall EXCEPT !.op = "load_chunk", !.local = c,
                                     !.dirty = r.dirty,
                                     !.resident = world_get(world, c),
                                     !.cached = path_exists(files, local_path(c)),
                                     !.before = IF world_get(world, c)
                                                THEN world[c].kind
                                                ELSE ChunkKindDefault]
           \* generate handed the layer it returned to save
           /\ written' =
                IF r.panic \/ path_exists(files, local_path(c)) THEN written
                ELSE [p \in (DOMAIN written) \cup {local_path(c)} |->
                        IF p = local_path(c)
                        THEN [local |-> c, kind |-> r.world[c].kind, replaced |-> FALSE]
                        ELSE written[p]]
    /\ steps' = steps + 1
    /\ UNCHANGED <<pure, occlusion, procs>>

UnloadChunk(c) ==
    /\ status = "ok"
    /\ steps < MaxSteps
    /\ \E r \in {unload_chunk(world, c)} :
           /\ world' = r.world
           /\ call' = [NoCall EXCEPT !.op = "unload_chunk", !.local = c,
                                     !.dirty = r.dirty,
                                     !.resident = world_get(world, c),
                                     !.cached = path_exists(files, local_path(c))]
    /\ steps' = steps + 1
    /\ UNCHANGED <<files, status, written, pure, occlusion, procs>>

UpdateVoxel(c, voxels) ==
    /\ status = "ok"
    /\ steps < MaxSteps
    /\ \E r \in {update_voxel(world, c, voxels)} :
           /\ world' = r.world
           /\ call' = [NoCall EXCEPT !.op = "update_voxel", !.local = c,
                                     !.voxels = voxels,
                                     !.dirty = r.dirty,
                                     !.resident = world_get(world, c),
                                     !.cached = path_exists(files, local_path(c))]
    /\ steps' = steps + 1
    /\ UNCHANGED <<files, status, written, pure, occlusion, procs>>

UpdateChunk(c) ==
    /\ status = "ok"
    /\ steps < MaxSteps
    /\ \E r \in {update_chunk(world, c)} :
           /\ world' = r.world
           /\ call' = [NoCall EXCEPT !.op = "update_chunk", !.local = c,
                                     !.ret = r.ret,
                                     !.resident = world_get(world, c),
                                     !.cached = path_exists(files, local_path(c))]
    /\ steps' = steps + 1
    /\ UNCHANGED <<files, status, written, pure, occlusion, procs>>

Next ==
    \E c \in ChunkCoords :
        \/ LoadChunk(c)
        \/ UnloadChunk(c)
        \/ UpdateChunk(c)
        \/ \E voxels \in EditSeqs : UpdateVoxel(c, voxels)

Spec == Init /\ [][Next]_vars

(***************************************************************************)
(* The cache functions called directly, as the unit tests of mod cache do  *)
(* (SpecCache)                                                             *)
(***************************************************************************)
GenCoords == {<<9999, 9998, 9997>>, <<-1, 1, 0>>}

SaveCoords == {<<-921, 0, 2319>>, <<-9998, 0, 9998>>}

SaveVoxels == {<<0, 0, 0>>, <<AXIS_SIZE - 1, AXIS_SIZE - 1, AXIS_SIZE - 1>>}

SaveKindValues == {256 + MaxKind, KIND_MAX}

SaveKinds == UNION {[S -> SaveKindValues] : S \in SUBSET SaveVoxels}

CachePaths == {local_path(c) : c \in GenCoords \cup SaveCoords}

InitCache ==
    /\ world = WorldEmpty
    /\ files = NoFiles
    /\ status = "ok"
    /\ call = NoCall
    /\ steps = 0
    /\ written = NoFiles
    /\ occlusion = FacesOcclusionDefault
    /\ procs = NoProcs
    /\ pure = NoPure

CacheGenerate(c) ==
    /\ status = "ok"
    /\ steps < MaxSteps
    /\ \E r \in {generate(files, c)}, path \in {local_path(c)} :
           /\ files' = r.files
           /\ status' = IF r.panic THEN "panic" ELSE "ok"
           /\ call' = [NoCall EXCEPT !.op = "generate", !.local = c, !.path = path,
                                     !.kind = r.kind,
                                     !.cached = path_exists(files, path)]
           /\ written' =
                IF r.panic THEN written
                ELSE [p \in (DOMAIN written) \cup {path} |->
                        IF p = path
                        THEN [local |-> c, kind |-> r.kind, replaced |-> FALSE]
                        ELSE written[p]]
    /\ steps' = steps + 1
    /\ UNCHANGED <<world, pure, occlusion, procs>>

CacheSave(path, c, kind) ==
    /\ status = "ok"
    /\ steps < MaxSteps
    /\ files' = save(files, path, c, kind)
    /\ call' = [NoCall EXCEPT !.op = "save", !.local = c, !.path = path,
                              !.kind = kind,
                              !.cached = path_exists(files, path)]
    /\ written' =
        [p \in (DOMAIN written) \cup {path} |->
            IF p = path
            THEN [local |-> c, kind |-> kind,
                  replaced |-> /\ path \in DOMAIN written
                               /\ \/ written[path].local # c
                                  \/ written[path].kind # kind]
            ELSE written[p]]
    /\ steps' = steps + 1
    /\ UNCHANGED <<world, status, pure, occlusion, procs>>

CacheLoad(path) ==
    /\ status = "ok"
    /\ steps < MaxSteps
    /\ LET cache == load_cache(files, path)
           r == load(files, path)
       IN  /\ status' = IF r.panic THEN "panic" ELSE "ok"
           /\ call' = [NoCall EXCEPT !.op = "load", !.local = cache.local,
                                     !.path = path, !.kind = r.kind,
                                     !.cached = path_exists(files, path)]
    /\ steps' = steps + 1
    /\ UNCHANGED <<world, files, written, pure, occlusion, procs>>

CacheRemove(path) ==
    /\ status = "ok"
    /\ steps < MaxSteps
    /\ path_exists(files, path)
    /\ files' = remove_file(files, path)
    /\ written' = [p \in (DOMAIN written) \ {path} |-> written[p]]
    /\ call' = [NoCall EXCEPT !.op = "remove_file", !.path = path, !.cached = TRUE]
    /\ steps' = steps + 1
    /\ UNCHANGED <<world, status, pure, occlusion, procs>>

NextCache ==
    \/ \E c \in GenCoords : CacheGenerate(c)
    \/ \E c \in SaveCoords, d \in SaveCoords, kind \in SaveKinds :
            CacheSave(local_path(d), c, kind)
    \/ \E path \in CachePaths : CacheLoad(path)
    \/ \E path \in CachePaths : CacheRemove(path)

SpecCache == InitCache /\ [][NextCache]_vars

(***************************************************************************)
(* local_path applied to pairs of chunk coordinates (SpecPath)             *)
(***************************************************************************)
RECURSIVE Repunit(_)
Repunit(n) == IF n <= 1 THEN 1 ELSE 10 * Repunit(n - 1) + 1

\* 0, and 1, 11, 111, ... of up to MaxDigits digits, with both signs.
PathValues == {0} \cup {sgn * Repunit(n) : sgn \in {-1, 1}, n \in 1..MaxDigits}

PathCoords == PathValues \X PathValues \X PathValues

InitPath ==
    /\ world = WorldEmpty
    /\ files = NoFiles
    /\ status = "ok"
    /\ call = NoCall
    /\ steps = 0
    /\ written = NoFiles
    /\ occlusion = FacesOcclusionDefault
    /\ procs = NoProcs
    /\ pure \in {[NoPure EXCEPT !.fn = "input", !.a = a, !.b = b] :
                    a \in PathCoords, b \in PathCoords}

ApplyLocalPath ==
    /\ pure.fn = "input"
    /\ pure' = [pure EXCEPT !.fn = "local_path",
                            !.out_a = local_path(pure.a),
                            !.out_b = local_path(pure.b)]
    /\ UNCHANGED <<world, files, status, call, steps, written, occlusion, procs>>

NextPath == ApplyLocalPath

SpecPath == InitPath /\ [][NextPath]_vars

(***************************************************************************)
(* to_world and to_local applied to voxel and chunk coordinates            *)
(* (SpecCoord)                                                             *)
(***************************************************************************)
\* The first chunk coordinate whose world positions leave the range in
\* which an f32 holds every integer.
FAR_CHUNK == F32_MANTISSA \div AXIS_SIZE

ChunkValues ==
    (-MaxChunk..MaxChunk) \cup {FAR_CHUNK - 1, FAR_CHUNK, -FAR_CHUNK, -FAR_CHUNK - 1}

CoordChunks == ChunkValues \X ChunkValues \X ChunkValues

VoxelValues == {0, 1, AXIS_SIZE - 1}

CoordVoxels == VoxelValues \X VoxelValues \X VoxelValues

InitCoord ==
    /\ world = WorldEmpty
    /\ files = NoFiles
    /\ status = "ok"
    /\ call = NoCall
    /\ steps = 0
    /\ written = NoFiles
    /\ occlusion = FacesOcclusionDefault
    /\ procs = NoProcs
    /\ pure \in {[NoPure EXCEPT !.fn = "input", !.v = v, !.a = c] :
                    v \in CoordVoxels, c \in CoordChunks}

ApplyToWorld ==
    /\ pure.fn = "input"
    /\ pure' = [pure EXCEPT !.fn = "to_world", !.pos = to_world(pure.v, pure.a)]
    /\ UNCHANGED <<world, files, status, call, steps, written, occlusion, procs>>

ApplyToLocal ==
    /\ pure.fn = "to_world"
    /\ pure' = [pure EXCEPT !.fn = "to_local", !.back = to_local(pure.pos)]
    /\ UNCHANGED <<world, files, status, call, steps, written, occlusion, procs>>

NextCoord == ApplyToWorld \/ ApplyToLocal

SpecCoord == InitCoord /\ [][NextCoord]_vars

(***************************************************************************)
(* to_local applied to world positions with fractions and negative         *)
(* components (SpecLocal)                                                  *)
(***************************************************************************)
\* Fractions of a position inside a chunk, in units of 1 / F32_UNIT:
\* 0, 0.25, 1.25, 1.5 and 15.75.
PosOffsets == {0, 1, F32_UNIT + 1, F32_UNIT + 2, AXIS_SIZE * F32_UNIT - 1}

PosValues ==
    {sgn * (c * AXIS_SIZE * F32_UNIT + o) :
        sgn \in {-1, 1}, c \in 0..MaxPos, o \in PosOffsets}

Positions == PosValues \X PosValues \X PosValues

InitLocal ==
    /\ world = WorldEmpty
    /\ files = NoFiles
    /\ status = "ok"
    /\ call = NoCall
    /\ steps = 0
    /\ written = NoFiles
    /\ occlusion = FacesOcclusionDefault
    /\ procs = NoProcs
    /\ pure \in {[NoPure EXCEPT !.fn = "position", !.pos = pos] : pos \in Positions}

ApplyToLocalAt ==
    /\ pure.fn = "position"
    /\ pure' = [pure EXCEPT !.fn = "to_local", !.back = to_local(pure.pos)]
    /\ UNCHANGED <<world, files, status, call, steps, written, occlusion, procs>>

NextLocal == ApplyToLocalAt

SpecLocal == InitLocal /\ [][NextLocal]_vars

(***************************************************************************)
(* One FacesOcclusion value under set_all and set (SpecMask)               *)
(***************************************************************************)
\* FacesOcclusion derives Deserialize: a value read back can wrap any u8.
InitMask ==
    /\ world = WorldEmpty
    /\ files = NoFiles
    /\ status = "ok"
    /\ call = NoCall
    /\ steps = 0
    /\ written = NoFiles
    /\ pure = NoPure
    /\ occlusion \in 0..U8_MAX
    /\ procs = NoProcs

SetAll(occluded) ==
    /\ steps < MaxSteps
    /\ occlusion' = set_all(occlusion, occluded)
    /\ call' = [NoCall EXCEPT !.op = "set_all", !.occluded = occluded,
                              !.mask = occlusion]
    /\ steps' = steps + 1
    /\ UNCHANGED <<world, files, status, written, pure, procs>>

Set(side, occluded) ==
    /\ steps < MaxSteps
    /\ occlusion' = set(occlusion, side, occluded)
    /\ call' = [NoCall EXCEPT !.op = "set", !.side = side, !.occluded = occluded,
                              !.mask = occlusion]
    /\ steps' = steps + 1
    /\ UNCHANGED <<world, files, status, written, pure, procs>>

\* Every [bool; 6], and each paired with what From<[bool; 6]>::from returns
\* for it.
BoolLists == [1..SIDE_COUNT -> BOOLEAN]

FromAll == {<<v, from(v)>> : v \in BoolLists}

\* occlusion = FacesOcclusion::from(v): the value is replaced by the one
\* built from the list.
From(v) ==
    /\ steps < MaxSteps
    /\ \E p \in FromAll : p[1] = v /\ occlusion' = p[2]
    /\ call' = [NoCall EXCEPT !.op = "from", !.list = v]
    /\ steps' = steps + 1
    /\ UNCHANGED <<world, files, status, written, pure, procs>>

NextMask ==
    \/ \E occluded \in BOOLEAN : SetAll(occluded)
    \/ \E side \in Range(SIDES), occluded \in BOOLEAN : Set(side, occluded)
    \/ \E v \in BoolLists : From(v)

SpecMask == InitMask /\ [][NextMask]_vars

(***************************************************************************)
(* The same calls on a value that starts as FacesOcclusion::default()      *)
(* (SpecMaskDefault), as in tests::faces_occlusion.                        *)
(***************************************************************************)
InitMaskDefault ==
    /\ world = WorldEmpty
    /\ files = NoFiles
    /\ status = "ok"
    /\ call = NoCall
    /\ steps = 0
    /\ written = NoFiles
    /\ pure = NoPure
    /\ occlusion = FacesOcclusionDefault
    /\ procs = NoProcs

SpecMaskDefault == InitMaskDefault /\ [][NextMask]_vars

(***************************************************************************)
(* Two cache calls in flight at once, each a bare generate or a load_chunk *)
(* up to the layer it obtains, their file-system accesses interleaved      *)
(* (SpecRace).  A call's position is the next access it makes:             *)
(* "exists" (load_chunk's path.exists()), "assert" (generate's             *)
(* assertion), "create" and "write" (save's open and serialize_into),      *)
(* "load" (cache::load).                                                   *)
(***************************************************************************)
RaceCalls == {1, 2}

RaceCoords == {<<0, 1, 0>>, <<-1, 1, 0>>}

RaceStart(fn, local) ==
    [fn |-> fn, local |-> local, pc |-> IF fn = "generate" THEN "assert" ELSE "exists",
     wrote |-> FALSE, kind |-> ChunkKindDefault]

InitRace ==
    /\ world = WorldEmpty
    /\ files = NoFiles
    /\ status = "ok"
    /\ call = NoCall
    /\ steps = 0
    /\ written = NoFiles
    /\ pure = NoPure
    /\ occlusion = FacesOcclusionDefault
    /\ procs \in [RaceCalls -> {RaceStart(fn, local) :
                        fn \in {"generate", "load_chunk"}, local \in RaceCoords}]

RaceExists(p) ==
    /\ procs[p].pc = "exists"
    /\ procs' = [procs EXCEPT ![p].pc =
                    IF path_exists(files, local_path(procs[p].local))
                    THEN "load" ELSE "assert"]
    /\ UNCHANGED <<world, files, status, call, steps, written, pure, occlusion>>

\* Mutant of RaceAssert: the assertion also fails while another call for
\* the same path is between its own assertion and the end of its write, as
\* it would if check and creation were one exclusive step.
RaceAssertExclusive(p) ==
    /\ procs[p].pc = "assert"
    /\ LET taken ==
                \/ path_exists(files, local_path(procs[p].local))
                \/ \E q \in RaceCalls \ {p} :
                        /\ procs[q].local = procs[p].local
                        /\ procs[q].pc \in {"create", "write"}
       IN  /\ procs' = [procs EXCEPT ![p].pc = IF taken THEN "panic" ELSE "create"]
           /\ status' = IF taken THEN "panic" ELSE status
    /\ UNCHANGED <<world, files, call, steps, written, pure, occlusion>>

RaceAssert(p) ==
    /\ procs[p].pc = "assert"
    /\ LET taken == path_exists(files, local_path(procs[p].local))
       IN  /\ procs' = [procs EXCEPT ![p].pc = IF taken THEN "panic" ELSE "create"]
           /\ status' = IF taken THEN "panic" ELSE status
    /\ UNCHANGED <<world, files, call, steps, written, pure, occlusion>>

RaceCreate(p) ==
    /\ procs[p].pc = "create"
    /\ files' = open_truncate(files, local_path(procs[p].local))
    /\ procs' = [procs EXCEPT ![p].pc = "write"]
    /\ UNCHANGED <<world, status, call, steps, written, pure, occlusion>>

RaceWrite(p) ==
    /\ procs[p].pc = "write"
    /\ \E kind \in {GenerateKind(procs[p].local)} :
           /\ files' = save(files, local_path(procs[p].local), procs[p].local, kind)
           /\ procs' = [procs EXCEPT ![p].pc = "done", ![p].wrote = TRUE,
                                     ![p].kind = kind]
    /\ UNCHANGED <<world, status, call, steps, written, pure, occlusion>>

RaceLoad(p) ==
    /\ procs[p].pc = "load"
    /\ \E r \in {load(files, local_path(procs[p].local))} :
           /\ procs' = [procs EXCEPT ![p].pc = IF r.panic THEN "panic" ELSE "done",
                                     ![p].kind = r.kind]
           /\ status' = IF r.panic THEN "panic" ELSE status
    /\ UNCHANGED <<world, files, call, steps, written, pure, occlusion>>

NextRace ==
    \E p \in RaceCalls :
        \/ RaceExists(p)
        \/ RaceAssert(p)
        \/ RaceCreate(p)
        \/ RaceWrite(p)
        \/ RaceLoad(p)

SpecRace == InitRace /\ [][NextRace]_vars

(***************************************************************************)
(* Vocabulary of the properties                                            *)
(***************************************************************************)
FaceNeighbours(c) ==
    {<<c[1] + 1, c[2], c[3]>>, <<c[1] - 1, c[2], c[3]>>,
     <<c[1], c[2] + 1, c[3]>>, <<c[1], c[2] - 1, c[3]>>,
     <<c[1], c[2], c[3] + 1>>, <<c[1], c[2], c[3] - 1>>}

\* The outward unit directions of a voxel: one per axis on which it lies on
\* the low face (component 0) or the high face (component AXIS_SIZE - 1).
OutwardDirs(v) ==
    {d \in {<<1, 0, 0>>, <<-1, 0, 0>>, <<0, 1, 0>>, <<0, -1, 0>>, <<0, 0, 1>>, <<0, 0, -1>>} :
        \E i \in 1..3 : (d[i] = -1 /\ v[i] = 0) \/ (d[i] = 1 /\ v[i] = AXIS_SIZE - 1)}

EditedVoxels(voxels) == {voxels[i][1] : i \in 1..Len(voxels)}

SameKinds(w1, w2) ==
    /\ DOMAIN w1 = DOMAIN w2
    /\ \A c \in DOMAIN w1 : w1[c].kind = w2[c].kind

(***************************************************************************)
(* C1: load_chunk on a coordinate C that is not resident makes C resident  *)
(* and returns exactly the 7 coordinates C, C+X, C-X, C+Y, C-Y, C+Z, C-Z,  *)
(* whether the chunk was read from a cache file or generated.              *)
(***************************************************************************)
C1_LoadChunkDirtySet ==
    (call.op = "load_chunk" /\ ~call.resident) =>
        /\ status = "ok"
        /\ call.local \in Resident(world)
        /\ call.dirty = {call.local} \cup FaceNeighbours(call.local)
        /\ Cardinality(call.dirty) = 7

C1_Witness ==
    /\ call.op = "load_chunk"
    /\ ~call.resident
    /\ call.cached
    /\ call.local \in Resident(world)
    /\ world[call.local].kind # ChunkKindDefault

C1_WitnessGenerated ==
    /\ call.op = "load_chunk"
    /\ ~call.resident
    /\ ~call.cached
    /\ call.local \in Resident(world)

(***************************************************************************)
(* C2: update_voxel on a resident chunk C with a non-empty edit sequence   *)
(* returns exactly {C} united with the neighbours C + d, d an outward unit *)
(* direction of some edited boundary voxel: an edit at (0, y, z) puts C    *)
(* and C-X in the set, and strictly interior edits return exactly {C}.     *)
(***************************************************************************)
C2_UpdateVoxelDirtySet ==
    (call.op = "update_voxel" /\ call.resident /\ call.voxels # <<>>) =>
        /\ call.dirty = {call.local} \cup
                {VAdd(call.local, d) : d \in UNION {OutwardDirs(v) : v \in EditedVoxels(call.voxels)}}
        /\ ((\E v \in EditedVoxels(call.voxels) : v[1] = 0) =>
                {call.local, <<call.local[1] - 1, call.local[2], call.local[3]>>} \subseteq call.dirty)
        /\ ((\A v \in EditedVoxels(call.voxels) : \A i \in 1..3 : v[i] \in 1..(AXIS_SIZE - 2)) =>
                call.dirty = {call.local})

\* A single corner edit: the chunk and three face-adjacent neighbours.
C2_Witness ==
    /\ call.op = "update_voxel"
    /\ call.resident
    /\ Len(call.voxels) = 1
    /\ Cardinality(OutwardDirs(call.voxels[1][1])) = 3
    /\ Cardinality(call.dirty) = 4

(***************************************************************************)
(* C3: update_voxel on a coordinate with no resident chunk drops every     *)
(* edit: no failure, an empty DirtySet, World and cache unchanged.         *)
(***************************************************************************)
C3_UpdateVoxelAbsent ==
    [][(call'.op = "update_voxel" /\ ~call'.resident) =>
            /\ status' = "ok"
            /\ call'.dirty = {}
            /\ world' = world
            /\ files' = files]_vars

C3_Witness ==
    /\ call.op = "update_voxel"
    /\ ~call.resident
    /\ call.voxels # <<>>
    /\ Resident(world) # {}
    /\ call.dirty = {}

(***************************************************************************)
(* C4: unload_chunk on a coordinate with no resident chunk does not fail,  *)
(* returns an empty DirtySet and leaves the World unchanged.               *)
(***************************************************************************)
C4_UnloadAbsent ==
    [][(call'.op = "unload_chunk" /\ ~call'.resident) =>
            /\ status' = "ok"
            /\ call'.dirty = {}
            /\ world' = world]_vars

C4_Witness ==
    /\ call.op = "unload_chunk"
    /\ ~call.resident
    /\ Resident(world) # {}
    /\ call.dirty = {}

(***************************************************************************)
(* C5: unload_chunk on a resident coordinate C removes the chunk at C and  *)
(* returns exactly the 6 face-adjacent neighbours of C, never C itself.    *)
(***************************************************************************)
C5_UnloadResident ==
    [][(call'.op = "unload_chunk" /\ call'.resident) =>
            /\ status' = "ok"
            /\ call'.local \in Resident(world)
            /\ Resident(world') = Resident(world) \ {call'.local}
            /\ \A c \in Resident(world') : world'[c] = world[c]
            /\ call'.dirty = FaceNeighbours(call'.local)
            /\ Cardinality(call'.dirty) = 6
            /\ call'.local \notin call'.dirty]_vars

\* The unloaded chunk's neighbour stays resident and is reported dirty.
C5_Witness ==
    /\ call.op = "unload_chunk"
    /\ call.resident
    /\ call.local \notin Resident(world)
    /\ Resident(world) \cap call.dirty # {}

(***************************************************************************)
(* C6: update_chunk(world, C) returns true exactly when a chunk is         *)
(* resident at C; returning false it has no side effects; in both cases    *)
(* the resident coordinates and every chunk's voxel kinds are unchanged.   *)
(***************************************************************************)
C6_UpdateChunk ==
    [][(call'.op = "update_chunk") =>
            /\ status' = "ok"
            /\ call'.ret = (call'.local \in Resident(world))
            /\ SameKinds(world, world')
            /\ files' = files
            /\ (~call'.ret => world' = world)]_vars

\* update_chunk returned true and recomputed neighbourhood state.
C6_Witness ==
    /\ call.op = "update_chunk"
    /\ call.ret
    /\ \E c \in Resident(world) : world[c].neighborhood # {}

C6_WitnessFalse ==
    /\ call.op = "update_chunk"
    /\ ~call.ret
    /\ Resident(world) # {}

(***************************************************************************)
(* C7: generate(C) called while a cache file for C exists (in particular a *)
(* second generate(C) with no removal in between) fails fatally.           *)
(***************************************************************************)
C7_GenerateCachedPanics ==
    (call.op = "generate" /\ call.cached) => status = "panic"

\* The second of two generate calls: the file is the one the first wrote.
C7_Witness ==
    /\ call.op = "generate"
    /\ call.cached
    /\ status = "panic"
    /\ call.path \in DOMAIN written
    /\ written[call.path].local = call.local
    /\ written[call.path].kind = call.kind

(***************************************************************************)
(* C8: save(path, coord, layer) followed by load(path) gives back the      *)
(* coordinate and the whole voxel layer, also when save overwrote a file   *)
(* holding a different record.                                             *)
(***************************************************************************)
C8_SaveLoadRoundTrip ==
    (call.op = "load" /\ call.cached) =>
        /\ status = "ok"
        /\ call.path \in DOMAIN written
        /\ call.kind = written[call.path].kind
        /\ call.local = written[call.path].local

\* A load of a path whose record replaced a different one; the layer holds
\* a kind that needs both bytes and the coordinate has a negative component.
C8_Witness ==
    /\ call.op = "load"
    /\ call.cached
    /\ status = "ok"
    /\ written[call.path].replaced
    /\ \E v \in DOMAIN call.kind : call.kind[v] > 255
    /\ \E i \in 1..3 : call.local[i] < 0

(***************************************************************************)
(* C9: the cache path of a coordinate has the file name <x>_<y>_<z>.<ext>  *)
(* built from its three signed integers, and distinct coordinates (also    *)
(* ones differing only in sign) never share a cache path.                  *)
(***************************************************************************)
FileName(p) == SubSeq(p, LastIndexOf(p, "/") + 1, Len(p))

ExpectedFileName(c) ==
    IntToString(c[1]) \o <<"_">> \o IntToString(c[2]) \o <<"_">> \o IntToString(c[3])
        \o <<".">> \o CACHE_EXT

C9_LocalPathInjective ==
    (pure.fn = "local_path") =>
        /\ FileName(pure.out_a) = ExpectedFileName(pure.a)
        /\ FileName(pure.out_b) = ExpectedFileName(pure.b)
        /\ (pure.out_a = pure.out_b) => (pure.a = pure.b)

\* Two coordinates that differ only in the sign of one component.
C9_Witness ==
    /\ pure.fn = "local_path"
    /\ pure.a[1] < 0
    /\ pure.b = <<-pure.a[1], pure.a[2], pure.a[3]>>
    /\ pure.out_a # pure.out_b

(***************************************************************************)
(* C10: for every local voxel coordinate v in [0, AXIS_SIZE)^3 and every   *)
(* chunk coordinate c, to_local(to_world(v, c)) = v.                       *)
(***************************************************************************)
C10_RoundTrip ==
    (pure.fn = "to_local") => (pure.back = pure.v)

(***************************************************************************)
(* C11: for every world position, negative components included, each       *)
(* component of to_local(position) lies in [0, AXIS_SIZE) and is the       *)
(* Euclidean remainder of the floored component.                           *)
(***************************************************************************)
\* floor(n / F32_UNIT) of a fixed-point component, by searching for it.
FloorOf(n) ==
    CHOOSE q \in -(Abs(n) + 1)..(Abs(n) + 1) : q * F32_UNIT <= n /\ n < (q + 1) * F32_UNIT

C11_ToLocalRange ==
    (pure.fn = "to_local") =>
        \A i \in 1..3 :
            /\ pure.back[i] \in 0..(AXIS_SIZE - 1)
            /\ \E k \in -(MaxPos + 3)..(MaxPos + 3) :
                    FloorOf(pure.pos[i]) = k * AXIS_SIZE + pure.back[i]

\* The position (1.25, -0.25, 17.5) of the unit test: (1, 15, 1).
C11_Witness ==
    /\ pure.fn = "to_local"
    /\ pure.pos = <<F32_UNIT + 1, -1, AXIS_SIZE * F32_UNIT + F32_UNIT + 2>>
    /\ pure.back = <<1, AXIS_SIZE - 1, 1>>

(***************************************************************************)
(* C12: from any FacesOcclusion value, set_all(true) makes                 *)
(* is_fully_occluded() true, and set_all(false) makes is_occluded(side)    *)
(* false for each of the six sides.                                        *)
(***************************************************************************)
C12_SetAll ==
    (call.op = "set_all") =>
        /\ call.occluded => is_fully_occluded(occlusion)
        /\ ~call.occluded => \A side \in Range(SIDES) : ~is_occluded(occlusion, side)

\* set_all(false) on a value that had every bit set, the two unused ones
\* included.
C12_Witness ==
    /\ call.op = "set_all"
    /\ ~call.occluded
    /\ call.mask = U8_MAX
    /\ \A side \in Range(SIDES) : ~is_occluded(occlusion, side)

\* set_all(true) on a value that had some side clear.
C12_WitnessTrue ==
    /\ call.op = "set_all"
    /\ call.occluded
    /\ ~is_fully_occluded(call.mask)
    /\ is_fully_occluded(occlusion)

(***************************************************************************)
(* C13: loading C (which generates the layer and writes the cache file),   *)
(* unloading it and loading it again, which reads the cache file, yields a *)
(* voxel layer identical to the one of the first load.                     *)
(***************************************************************************)
C13_ReloadSameLayer ==
    (/\ call.op = "load_chunk"
     /\ call.cached
     /\ local_path(call.local) \in DOMAIN written) =>
        /\ status = "ok"
        /\ call.local \in Resident(world)
        /\ world[call.local].kind = written[local_path(call.local)].kind

\* The second load of a coordinate that this run generated and unloaded;
\* the layer holds terrain.
C13_Witness ==
    /\ call.op = "load_chunk"
    /\ call.cached
    /\ ~call.resident
    /\ local_path(call.local) \in DOMAIN written
    /\ written[local_path(call.local)].kind # ChunkKindDefault
    /\ world[call.local].kind = written[local_path(call.local)].kind

(***************************************************************************)
(* C14: residency of a coordinate follows Absent -> Resident -> Absent:    *)
(* only load_chunk(C) makes C resident, only unload_chunk(C) makes C       *)
(* absent, update_voxel and update_chunk never change the resident         *)
(* coordinates, and no command changes the residency of a coordinate other *)
(* than its argument.                                                      *)
(***************************************************************************)
C14_Residency ==
    [][/\ \A c \in Resident(world') \ Resident(world) :
            call'.op = "load_chunk" /\ call'.local = c
       /\ \A c \in Resident(world) \ Resident(world') :
            call'.op = "unload_chunk" /\ call'.local = c
       /\ (call'.op \in {"update_voxel", "update_chunk"}) =>
            Resident(world') = Resident(world)
       /\ (call'.op = "load_chunk" /\ status' = "ok") =>
            call'.local \in Resident(world')
       /\ (call'.op = "unload_chunk") =>
            call'.local \notin Resident(world')]_vars

\* An edit reported a neighbour dirty that is still absent.
C14_Witness ==
    /\ call.op = "update_voxel"
    /\ call.resident
    /\ \E d \in call.dirty \cap ChunkCoords : d \notin Resident(world)

\* A coordinate generated in this run went back to Absent while the other
\* coordinate stayed resident.
C14_WitnessAbsentAgain ==
    /\ call.op = "unload_chunk"
    /\ call.resident
    /\ local_path(call.local) \in DOMAIN written
    /\ Resident(world) # {}

(***************************************************************************)
(* C15: after any sequence of commands every coordinate that is or was     *)
(* resident has a cache file and every cache file holds the originally     *)
(* generated layer of its coordinate: no command deletes or rewrites a     *)
(* cache file, only load_chunk creates one, and the file a generating load *)
(* wrote holds the layer that load returned, whatever edits followed.      *)
(***************************************************************************)
C15_CacheHoldsOriginal ==
    [][/\ \A c \in Resident(world') : path_exists(files', local_path(c))
       /\ \A p \in DOMAIN files : path_exists(files', p) /\ files'[p] = files[p]
       /\ (call'.op # "load_chunk") => (files' = files /\ written' = written)
       /\ (call'.op = "load_chunk") =>
            \A p \in DOMAIN written' :
                /\ path_exists(files', p)
                /\ load_cache(files', p) =
                        [panic |-> FALSE, local |-> written'[p].local,
                         kind |-> written'[p].kind]]_vars

\* A coordinate generated in this run, then edited: the resident layer and
\* the cached one differ.
C15_Witness ==
    /\ call.op = "update_voxel"
    /\ call.resident
    /\ local_path(call.local) \in DOMAIN written
    /\ world[call.local].kind # written[local_path(call.local)].kind
    /\ load(files, local_path(call.local)).kind = written[local_path(call.local)].kind

\* A chunk generated in this run was unloaded: its cache file stays.
C15_WitnessUnloaded ==
    /\ call.op = "unload_chunk"
    /\ call.resident
    /\ local_path(call.local) \in DOMAIN written
    /\ path_exists(files, local_path(call.local))

(***************************************************************************)
(* C16: with commands issued one at a time, no sequence of load_chunk,     *)
(* unload_chunk, update_voxel and update_chunk reaches generate's fatal    *)
(* assertion: load_chunk generates only for a coordinate that has no cache *)
(* file.                                                                   *)
(***************************************************************************)
C16_NoCachePanic ==
    /\ status = "ok"
    /\ (call.op = "load_chunk") =>
            /\ call.local \in Resident(world)
            /\ path_exists(files, local_path(call.local))

\* The same coordinate loaded again while resident, its cache file written
\* by the first load.
C16_Witness ==
    /\ call.op = "load_chunk"
    /\ call.resident
    /\ call.cached
    /\ local_path(call.local) \in DOMAIN written
    /\ status = "ok"
    /\ steps = 2

(***************************************************************************)
(* C17: two generate (or load_chunk) calls for the same never-yet-cached   *)
(* coordinate, their steps interleaved, are not serialized by the          *)
(* existence check: the assertion of a call passes whenever no file exists *)
(* at that moment, also while the other call has passed its own assertion  *)
(* and not yet written, and every call that passed it writes the file.     *)
(***************************************************************************)
C17_CheckDoesNotSerialize ==
    [][\A p \in RaceCalls :
        /\ (procs[p].pc = "assert" /\ procs'[p].pc # "assert") =>
                (procs'[p].pc = "create") = ~path_exists(files, local_path(procs[p].local))
        /\ (procs'[p].pc = "done" /\ procs[p].pc = "write") =>
                /\ procs'[p].wrote
                /\ path_exists(files', local_path(procs[p].local))]_vars

\* Both calls are for the same coordinate, both passed the assertion and
\* both wrote the cache file; neither failed.
C17_Witness ==
    /\ procs # NoProcs
    /\ procs[1].local = procs[2].local
    /\ \A p \in RaceCalls : procs[p].pc = "done" /\ procs[p].wrote
    /\ procs[1].fn = "generate"
    /\ procs[2].fn = "load_chunk"
    /\ status = "ok"

\* Both calls have passed the assertion and neither has created the file.
C17_WitnessBothPassed ==
    /\ procs # NoProcs
    /\ procs[1].local = procs[2].local
    /\ \A p \in RaceCalls : procs[p].pc = "create"
    /\ ~path_exists(files, local_path(procs[1].local))

(***************************************************************************)
(* C18: update_voxel on a resident chunk C applies the edits in sequence   *)
(* order: afterwards every edited voxel holds the kind of the last edit    *)
(* that names it, every other voxel of C keeps its kind, and every other   *)
(* chunk is unchanged.                                                     *)
(***************************************************************************)
LastEdit(voxels, v) ==
    LET last == CHOOSE i \in 1..Len(voxels) :
                    /\ voxels[i][1] = v
                    /\ \A j \in (i + 1)..Len(voxels) : voxels[j][1] # v
    IN  voxels[last][2]

C18_EditsInOrder ==
    [][(call'.op = "update_voxel" /\ call'.resident) =>
            /\ Resident(world') = Resident(world)
            /\ \A v \in EditedVoxels(call'.voxels) :
                    ChunkGet(world'[call'.local].kind, v) = LastEdit(call'.voxels, v)
            /\ \A v \in ((DOMAIN world[call'.local].kind)
                            \cup (DOMAIN world'[call'.local].kind))
                                \ EditedVoxels(call'.voxels) :
                    ChunkGet(world'[call'.local].kind, v) = ChunkGet(world[call'.local].kind, v)
            /\ \A d \in Resident(world) \ {call'.local} : world'[d] = world[d]]_vars

\* The same voxel named twice with different kinds, its neighbour chunk
\* resident: the voxel holds the second kind.
C18_Witness ==
    /\ call.op = "update_voxel"
    /\ call.resident
    /\ Len(call.voxels) = 2
    /\ call.voxels[1][1] = call.voxels[2][1]
    /\ call.voxels[1][2] = 0
    /\ call.voxels[2][2] = MaxKind
    /\ ChunkGet(world[call.local].kind, call.voxels[2][1]) = MaxKind
    /\ Cardinality(Resident(world)) = 2
    /\ Resident(world) \cap call.dirty # {call.local}

(***************************************************************************)
(* C19: load_chunk on a coordinate C that is already resident replaces the *)
(* resident chunk with the layer read from C's cache file, discarding the  *)
(* edits made since it was loaded; the World still holds one chunk at C,   *)
(* no error is signalled and the DirtySet is the 7 coordinates of a first  *)
(* load.                                                                   *)
(***************************************************************************)
C19_ReloadReplaces ==
    [][(call'.op = "load_chunk" /\ call'.resident) =>
            /\ status' = "ok"
            /\ call'.cached
            /\ files' = files
            /\ Resident(world') = Resident(world)
            /\ world'[call'.local].kind = load(files, local_path(call'.local)).kind
            /\ \A d \in Resident(world) \ {call'.local} : world'[d] = world[d]
            /\ call'.dirty = {call'.local} \cup FaceNeighbours(call'.local)
            /\ Cardinality(call'.dirty) = 7]_vars

\* The replaced chunk had been edited: its layer differed from the cached
\* one, which is the layer resident now.
C19_Witness ==
    /\ call.op = "load_chunk"
    /\ call.resident
    /\ call.before # world[call.local].kind
    /\ world[call.local].kind = load(files, local_path(call.local)).kind

(***************************************************************************)
(* C20: the DirtySet of update_voxel is accumulated per edit, so           *)
(* update_voxel on a resident chunk with an empty edit sequence returns an *)
(* empty DirtySet and changes nothing.                                     *)
(***************************************************************************)
C20_EmptyEditsEmptyDirtySet ==
    [][(call'.op = "update_voxel" /\ call'.resident /\ call'.voxels = <<>>) =>
            /\ call'.dirty = {}
            /\ world' = world
            /\ files' = files]_vars

(***************************************************************************)
(* C21: from any FacesOcclusion value, after set(s, b) is_occluded(s) is b *)
(* and is_occluded(t) is what it was for each of the five other sides t;   *)
(* a value built from a 6-element boolean list v has is_occluded(side)     *)
(* equal to v[index of side] for every side.                               *)
(***************************************************************************)
C21_SetOneSide ==
    /\ (call.op = "set") =>
            /\ is_occluded(occlusion, call.side) = call.occluded
            /\ \A t \in Range(SIDES) \ {call.side} :
                    is_occluded(occlusion, t) = is_occluded(call.mask, t)
    /\ (call.op = "from") =>
            \A side \in Range(SIDES) :
                is_occluded(occlusion, side) = call.list[SideIndex(side) + 1]

\* set(Back, false) on a value that had every bit set: Back is cleared, the
\* five other sides are still occluded.
C21_Witness ==
    /\ call.op = "set"
    /\ call.side = "Back"
    /\ ~call.occluded
    /\ call.mask = U8_MAX
    /\ ~is_occluded(occlusion, "Back")
    /\ \A t \in Range(SIDES) \ {"Back"} : is_occluded(occlusion, t)

\* set(Up, true) on a value that had Up clear and some other side set.
C21_WitnessSetTrue ==
    /\ call.op = "set"
    /\ call.side = "Up"
    /\ call.occluded
    /\ ~is_occluded(call.mask, "Up")
    /\ is_occluded(call.mask, "Left")
    /\ is_occluded(occlusion, "Up")
    /\ is_occluded(occlusion, "Left")

\* A value built from a list with Left, Up and Back true and the rest false.
C21_WitnessFrom ==
    /\ call.op = "from"
    /\ call.list = <<FALSE, TRUE, TRUE, FALSE, FALSE, TRUE>>
    /\ {side \in Range(SIDES) : is_occluded(occlusion, side)} = {"Left", "Up", "Back"}

(***************************************************************************)
(* C22: after any sequence of set and set_all calls on a FacesOcclusion    *)
(* that started as the default, the two bits above the six side bits are   *)
(* zero, and is_fully_occluded() is true exactly when is_occluded(side) is *)
(* true for all six sides.                                                 *)
(***************************************************************************)
C22_SixSignificantBits ==
    /\ \A i \in SIDE_COUNT..(U8_BITS - 1) : Bit(occlusion, i) = 0
    /\ is_fully_occluded(occlusion) <=>
            \A side \in Range(SIDES) : is_occluded(occlusion, side)

\* set_all(true), set(Back, false), set(Back, true): the last set makes a
\* value that was not fully occluded fully occluded again.
C22_Witness ==
    /\ call.op = "set"
    /\ call.side = "Back"
    /\ call.occluded
    /\ steps = 3
    /\ ~is_fully_occluded(call.mask)
    /\ is_fully_occluded(occlusion)
    /\ occlusion = FULL_OCCLUDED_MASK

\* Three set(_, true) calls from the default: three sides occluded, three
\* clear, not fully occluded.
C22_WitnessPartial ==
    /\ call.op = "set"
    /\ steps = 3
    /\ Cardinality({side \in Range(SIDES) : is_occluded(occlusion, side)}) = 3
    /\ Cardinality({side \in Range(SIDES) : is_occluded(call.mask, side)}) = 2
    /\ ~is_fully_occluded(occlusion)

====
